---- MODULE Spec2Model ----
(***************************************************************************)
(* One call of run_simulation (src/app111.py): the discrete PID loop       *)
(* against a first-order-plus-dead-time plant.                             *)
(*                                                                         *)
(* Numbers.  The program computes in Python floats; the model computes in  *)
(* exact rationals, a record [n, d] in lowest terms with d > 0.  A claim   *)
(* settled here is settled up to floating-point rounding.                  *)
(* The arguments are Python numbers (the page passes slider values), so a  *)
(* division by zero raises ZeroDivisionError.                              *)
(***************************************************************************)
EXTENDS Integers, FiniteSets

VARIABLES
    kp, ti, td, K, T, L, sp, total_time, dt,   \* the arguments of the call
    n_steps, time, y, u, error,                \* the arrays and their length
    delay_steps, integral, prev_error, i,      \* loop state
    derivative, term_i, u_val,                 \* locals of the last iteration
    idx_delayed, u_delayed,
    pc, exc,                                   \* where the call is; what it raised
    diagnostics                                \* warnings surfaced to the caller

args == <<kp, ti, td, K, T, L, sp, total_time, dt>>
arrays == <<n_steps, time, y, u, error>>
loopState == <<delay_steps, integral, prev_error, i>>
locals == <<derivative, term_i, u_val, idx_delayed, u_delayed>>
vars == <<args, arrays, loopState, locals, pc, exc, diagnostics>>

----------------------------------------------------------------------------
(* Exact rational arithmetic.                                              *)

Abs(x) == IF x < 0 THEN -x ELSE x

RECURSIVE GCD(_, _)
GCD(a, b) == IF b = 0 THEN a ELSE GCD(b, a % b)

\* n/d in lowest terms, d # 0.
Rat(n, d) ==
    LET g == GCD(Abs(n), Abs(d))
        s == IF d < 0 THEN -1 ELSE 1
    IN  [n |-> (s * n) \div g, d |-> Abs(d) \div g]

Int2Rat(k) == [n |-> k, d |-> 1]
Zero == Int2Rat(0)

RAdd(a, b) ==
    LET g == GCD(a.d, b.d)
        l == (a.d \div g) * b.d
    IN  Rat(a.n * (l \div a.d) + b.n * (l \div b.d), l)

RNeg(a) == [n |-> -a.n, d |-> a.d]
RSub(a, b) == RAdd(a, RNeg(b))

RMul(a, b) ==
    LET g1 == GCD(Abs(a.n), b.d)
        g2 == GCD(Abs(b.n), a.d)
    IN  Rat((a.n \div g1) * (b.n \div g2), (a.d \div g2) * (b.d \div g1))

\* a / b, b # 0.
RDiv(a, b) == RMul(a, Rat(b.d, b.n))

RLt(a, b) == a.n * b.d < b.n * a.d
RLe(a, b) == a.n * b.d <= b.n * a.d
RAbs(a) == [n |-> Abs(a.n), d |-> a.d]

\* Python's int(x): truncation toward zero.
PyInt(a) == IF a.n >= 0 THEN a.n \div a.d ELSE -((-a.n) \div a.d)

----------------------------------------------------------------------------
(* numpy arrays: functions on 0..len-1.                                    *)

Size(a) == Cardinality(DOMAIN a)

\* np.zeros(n), n >= 0.
Zeros(n) == [k \in 0..(n - 1) |-> Zero]

\* np.linspace(0, stop, num), num >= 0: num samples from 0 to stop inclusive.
Linspace(stop, num) ==
    [k \in 0..(num - 1) |->
        IF num = 1 THEN Zero ELSE RMul(Int2Rat(k), RDiv(stop, Int2Rat(num - 1)))]

\* a[k] with Python's index rules: a negative index counts from the end.
InRange(a, k) == -Size(a) <= k /\ k < Size(a)
PyGet(a, k) == IF k < 0 THEN a[Size(a) + k] ELSE a[k]

----------------------------------------------------------------------------
(* The pieces of run_simulation.                                           *)

IntegralMax == 100
IntegralMin == -100
ActuatorMax == 100
ActuatorMin == 0
LoopStartAtZero == 1 - 1

\* for i in range(1, n_steps)
LoopStart == 1

\* The threshold 0.01 below which the integral term is switched off.
TiMin == Rat(1, 100)

NStepsOffByOne(tt, h) == PyInt(RDiv(tt, h)) + 1

\* n_steps = int(total_time / dt), dt # 0.
NSteps(tt, h) == PyInt(RDiv(tt, h))

\* delay_steps = int(L / dt), dt # 0.
DelaySteps(l, h) == PyInt(RDiv(l, h))

ClampIntegralLowOnly(x) ==
    IF RLt(x, Int2Rat(IntegralMin)) THEN Int2Rat(IntegralMin) ELSE x

\* if integral > 100: integral = 100; if integral < -100: integral = -100
ClampIntegral(x) ==
    LET hi == IF RLt(Int2Rat(IntegralMax), x) THEN Int2Rat(IntegralMax) ELSE x
    IN  IF RLt(hi, Int2Rat(IntegralMin)) THEN Int2Rat(IntegralMin) ELSE hi

TermIPositiveTi(t, integ) ==
    IF RLt(Zero, t) THEN RMul(RDiv(Int2Rat(1), t), integ) ELSE Zero

\* term_i = (1 / ti * integral) if ti > 0.01 else 0
TermI(t, integ) ==
    IF RLt(TiMin, t) THEN RMul(RDiv(Int2Rat(1), t), integ) ELSE Zero

\* u_val = kp * (error[i] + term_i + td * derivative)
PidLaw(p, e, ti_term, d, deriv) == RMul(p, RAdd(RAdd(e, ti_term), RMul(d, deriv)))

ActuatorLowOnly(x) ==
    IF RLt(x, Int2Rat(ActuatorMin)) THEN Int2Rat(ActuatorMin) ELSE x

\* np.clip(u_val, 0, 100)
Actuator(x) ==
    IF RLt(x, Int2Rat(ActuatorMin)) THEN Int2Rat(ActuatorMin)
    ELSE IF RLt(Int2Rat(ActuatorMax), x) THEN Int2Rat(ActuatorMax)
    ELSE x

DelayedIdxOneLate(k, d) == k - d + 1

DelayedIdxOneEarly(k, d) == k - d - 1

\* idx_delayed = i - delay_steps
DelayedIdx(k, d) == k - d

PlantUpdateInverseRatio(h, tc, gain, ud, yprev) ==
    RAdd(RMul(RMul(RDiv(h, tc), gain), ud),
         RMul(RSub(Int2Rat(1), RDiv(tc, h)), yprev))

\* y[i] = (dt / T) * K * u_delayed + (1 - (dt / T)) * y[i - 1], T # 0.
PlantUpdate(h, tc, gain, ud, yprev) ==
    RAdd(RMul(RMul(RDiv(h, tc), gain), ud),
         RMul(RSub(Int2Rat(1), RDiv(h, tc)), yprev))

----------------------------------------------------------------------------
(* The calls considered.                                                   *)

MaxTotalTime == 3
MaxDelay == 2

KpSet == {Rat(1, 2), Int2Rat(2)}
TiSet == {Int2Rat(-1), Zero, Rat(1, 100), Rat(1, 2)}
TdSet == {Zero, Rat(1, 2)}
KSet == {Int2Rat(-1), Int2Rat(2)}
TSet == {Int2Rat(-1), Zero, Rat(1, 2), Int2Rat(2)}
LSet == {Int2Rat(k) : k \in 0..MaxDelay}
SpSet == {Int2Rat(-10), Zero, Int2Rat(100), Int2Rat(1000)}
TotalTimeSet == {Int2Rat(k) : k \in (-2)..MaxTotalTime}
DtSet == {Int2Rat(-1), Zero, Rat(1, 2), Rat(3, 4), Int2Rat(1)}

Empty == [k \in {} |-> Zero]

Init ==
    /\ kp \in KpSet /\ ti \in TiSet /\ td \in TdSet
    /\ K \in KSet /\ T \in TSet /\ L \in LSet
    /\ sp \in SpSet /\ total_time \in TotalTimeSet /\ dt \in DtSet
    /\ n_steps = 0 /\ time = Empty /\ y = Empty /\ u = Empty /\ error = Empty
    /\ delay_steps = 0 /\ integral = Zero /\ prev_error = Zero /\ i = 0
    /\ derivative = Zero /\ term_i = Zero /\ u_val = Zero
    /\ idx_delayed = 0 /\ u_delayed = Zero
    /\ pc = "call" /\ exc = "none"
    /\ diagnostics = {}

Raise(name) == pc' = "raised" /\ exc' = name

\* Lines 32-45: the arrays, the delay and the controller state.
Setup ==
    /\ pc = "call"
    /\ IF dt.n = 0
       THEN \* total_time / dt
            /\ Raise("ZeroDivisionError")
            /\ UNCHANGED <<arrays, loopState>>
       ELSE IF NSteps(total_time, dt) < 0
       THEN \* np.linspace refuses a negative number of samples
            /\ Raise("ValueError")
            /\ n_steps' = NSteps(total_time, dt)
            /\ UNCHANGED <<time, y, u, error, loopState>>
       ELSE /\ n_steps' = NSteps(total_time, dt)
            /\ time' = Linspace(total_time, n_steps')
            /\ y' = Zeros(n_steps')
            /\ u' = Zeros(n_steps')
            /\ error' = Zeros(n_steps')
            /\ delay_steps' = DelaySteps(L, dt)
            /\ integral' = Zero
            /\ prev_error' = Zero
            /\ i' = LoopStart
            /\ pc' = "loop"
            /\ exc' = "none"
    /\ UNCHANGED <<args, locals, diagnostics>>

\* Lines 47-83: one iteration of the loop, up to the statement that raises.
Step ==
    /\ pc = "loop"
    /\ i < n_steps
    /\ LET e == RSub(sp, PyGet(y, i - 1))
           integ == ClampIntegral(RAdd(integral, RMul(e, dt)))
           deriv == RDiv(RSub(e, prev_error), dt)
           tint == TermI(ti, integ)
           uv == PidLaw(kp, e, tint, td, deriv)
           idx == DelayedIdx(i, delay_steps)
           u1 == [u EXCEPT ![i] = Actuator(uv)]
           ud == IF idx < 0 THEN Zero ELSE PyGet(u1, idx)
       IN  /\ error' = [error EXCEPT ![i] = e]
           /\ integral' = integ
           /\ derivative' = deriv
           /\ term_i' = tint
           /\ u_val' = uv
           /\ u' = u1
           /\ prev_error' = e
           /\ idx_delayed' = idx
           /\ IF idx >= 0 /\ ~InRange(u1, idx)
              THEN \* u[idx_delayed] past the end of the array
                   /\ Raise("IndexError")
                   /\ UNCHANGED <<u_delayed, y, i>>
              ELSE IF T.n = 0
              THEN \* dt / T
                   /\ Raise("ZeroDivisionError")
                   /\ u_delayed' = ud
                   /\ UNCHANGED <<y, i>>
              ELSE /\ u_delayed' = ud
                   /\ y' = [y EXCEPT ![i] = PlantUpdate(dt, T, K, ud, PyGet(y, i - 1))]
                   /\ i' = i + 1
                   /\ UNCHANGED <<pc, exc>>
    /\ UNCHANGED <<args, n_steps, time, delay_steps, diagnostics>>

\* Line 85: return time, y, u, error
Return ==
    /\ pc = "loop"
    /\ i >= n_steps
    /\ pc' = "returned"
    /\ UNCHANGED <<args, arrays, loopState, locals, exc, diagnostics>>

Next == Setup \/ Step \/ Return

Spec == Init /\ [][Next]_vars

----------------------------------------------------------------------------
(* Vocabulary of the claims.                                               *)

Pos(a) == a.n > 0

\* The preconditions of the specification: dt > 0, totalTime > 0, T > 0.
ValidConfig == Pos(dt) /\ Pos(total_time) /\ Pos(T)

\* The arrays exist: the call is in its loop or has returned.
Running == pc \in {"loop", "returned"}

\* At least one iteration has completed; its index is i - 1 and the locals
\* derivative, term_i, u_val, idx_delayed, u_delayed are that iteration's.
Stepped == Running /\ i > LoopStart

\* An iteration of the loop has been entered, whether it completed or raised.
StepComputed ==
    \/ Stepped
    \/ pc = "raised" /\ dt.n # 0 /\ exc \in {"IndexError", "ZeroDivisionError"}

Between(lo, x, hi) == RLe(Int2Rat(lo), x) /\ RLe(x, Int2Rat(hi))

----------------------------------------------------------------------------
\* C1: for a valid configuration every control sample lies in [0, 100]: the
\* sample an iteration stores is its raw PID output, replaced by 0 when below
\* 0 and by 100 when above 100, and control[0] stays 0.
C1_Saturation ==
    (ValidConfig /\ Running) =>
        /\ \A k \in DOMAIN u : Between(0, u[k], 100)
        /\ n_steps >= 1 => u[0] = Zero
        /\ Stepped =>
              /\ RLt(u_val, Int2Rat(0)) => u[i - 1] = Int2Rat(0)
              /\ RLt(Int2Rat(100), u_val) => u[i - 1] = Int2Rat(100)
              /\ Between(0, u_val, 100) => u[i - 1] = u_val

\* A returned trajectory in which the actuator was clamped at both ends: a
\* sample at 100, and a last raw output below 0 stored as 0.
C1_Witness ==
    /\ ValidConfig /\ pc = "returned"
    /\ \E k \in DOMAIN u : u[k] = Int2Rat(100)
    /\ RLt(u_val, Zero) /\ u[n_steps - 1] = Zero

\* C2: with dt <= 0, totalTime <= 0 or T <= 0 the call fails before any
\* iteration is computed and never returns a trajectory.
C2_FailFast ==
    ~ValidConfig => (pc # "returned" /\ ~StepComputed)

\* C3: for a valid configuration the four arrays have the same length n, and
\* n is the floor of totalTime / dt: n * dt <= totalTime < (n + 1) * dt.
C3_Length ==
    (ValidConfig /\ Running) =>
        /\ Size(time) = n_steps /\ Size(y) = n_steps
        /\ Size(u) = n_steps /\ Size(error) = n_steps
        /\ RLe(RMul(Int2Rat(n_steps), dt), total_time)
        /\ RLt(total_time, RMul(Int2Rat(n_steps + 1), dt))

\* A returned trajectory of at least two samples whose horizon is not a whole
\* number of sample intervals.
C3_Witness ==
    /\ ValidConfig /\ pc = "returned" /\ n_steps >= 2
    /\ RLt(RMul(Int2Rat(n_steps), dt), total_time)

\* C4: for a valid configuration time[k] = k * dt at every index.
C4_TimeAxis ==
    (ValidConfig /\ Running) =>
        \A k \in DOMAIN time : time[k] = RMul(Int2Rat(k), dt)

----------------------------------------------------------------------------
\* The quantized delay: delay_steps = floor(L / dt).
DelayIsFloor ==
    /\ RLe(RMul(Int2Rat(delay_steps), dt), L)
    /\ RLt(L, RMul(Int2Rat(delay_steps + 1), dt))

\* Every control sample computed so far (indices 1..i-1) is the same c > 0.
ConstantControl ==
    /\ Stepped
    /\ Pos(u[1])
    /\ \A k \in 1..(i - 1) : u[k] = u[1]

\* C5 (as stated): with d = floor(L/dt), K > 0 and control constant c > 0 from
\* index 1 on, output[k] = 0 for every k < d, output[d] > 0 and
\* output[k] > output[k-1] for every k >= d.  Index 0 is the initial
\* condition and has no predecessor, so the rising clauses are read for
\* k >= 1.
C5_DelayAsStated ==
    (ValidConfig /\ Pos(K) /\ ConstantControl) =>
        /\ DelayIsFloor
        /\ \A k \in 1..(i - 1) :
              /\ k < delay_steps => y[k] = Zero
              /\ k = delay_steps => Pos(y[k])
              /\ k >= delay_steps => RLt(y[k - 1], y[k])

\* C5 (amended): with d = floor(L/dt), K > 0 and control constant c > 0 from
\* index 1 on, output[k] = 0 for every k <= d (control[0] = 0 is what reaches
\* the plant at step d), and when dt < T the output rises from index d + 1 on:
\* output[k] > output[k-1] for every k >= d + 1.
C5_Delay ==
    (ValidConfig /\ Pos(K) /\ ConstantControl) =>
        /\ DelayIsFloor
        /\ \A k \in 0..(i - 1) :
              /\ k <= delay_steps => y[k] = Zero
              /\ (RLt(dt, T) /\ k >= delay_steps + 1) => RLt(y[k - 1], y[k])

\* Constant positive control behind a delay of at least one step that is not
\* a whole number of sample intervals, with two rising samples computed.
C5_Witness ==
    /\ ValidConfig /\ Pos(K) /\ ConstantControl /\ RLt(dt, T)
    /\ delay_steps >= 1 /\ i >= delay_steps + 3
    /\ RLt(RMul(Int2Rat(delay_steps), dt), L)
    /\ y[delay_steps] = Zero
    /\ RLt(y[delay_steps + 1], y[delay_steps + 2])

\* C6: the integral accumulator lies in [-100, 100] after every update and
\* the PID law uses the clamped value (|term_i| * ti <= 100 when the term is
\* on); for a valid configuration, an integral at 100 stays at 100 across an
\* iteration whose error is positive, and while it stays at 100 with the
\* error fixed (zero derivative) the raw control output does not change.
C6_IntegralClamp ==
    /\ [](Running =>
            /\ Between(-100, integral, 100)
            /\ (Stepped /\ RLt(Rat(1, 100), ti)) =>
                   RLe(RMul(RAbs(term_i), ti), Int2Rat(100)))
    /\ [][(ValidConfig /\ pc = "loop" /\ i' = i + 1
           /\ integral = Int2Rat(100) /\ Pos(error'[i]))
          => integral' = Int2Rat(100)]_vars
    /\ [][(ValidConfig /\ pc = "loop" /\ i > LoopStart /\ i' = i + 1
           /\ integral = Int2Rat(100) /\ integral' = Int2Rat(100)
           /\ derivative = Zero /\ error'[i] = error[i - 1])
          => u_val' = u_val]_vars

\* Three iterations with the error held at 100 and dt = 1/2: the integral is
\* 50, then 100, then (150 clamped to) 100, and the last two iterations have
\* zero derivative.
C6_Witness ==
    /\ ValidConfig /\ pc = "loop" /\ i = 4
    /\ dt = Rat(1, 2) /\ RLt(Rat(1, 100), ti)
    /\ error[1] = Int2Rat(100) /\ error[2] = Int2Rat(100) /\ error[3] = Int2Rat(100)
    /\ integral = Int2Rat(100) /\ derivative = Zero

\* C7: with ti <= 0.01 (zero and negative included) a valid call raises
\* nothing and every iteration has term_i = 0 and
\* u_val = kp * (error[i] + td * derivative); with ti > 0.01 the term is
\* integral / ti.
C7_IntegralDisabled ==
    /\ (ValidConfig /\ RLe(ti, Rat(1, 100))) => pc # "raised"
    /\ Stepped =>
          /\ RLe(ti, Rat(1, 100)) =>
                /\ term_i = Zero
                /\ u_val = RMul(kp, RAdd(error[i - 1], RMul(td, derivative)))
          /\ RLt(Rat(1, 100), ti) => term_i = RDiv(integral, ti)

\* A returned valid run with ti exactly 0.01, a nonzero integral and a nonzero
\* raw control output.
C7_Witness ==
    /\ ValidConfig /\ pc = "returned" /\ Stepped
    /\ ti = Rat(1, 100)
    /\ integral # Zero /\ u_val # Zero

\* The instability scenario: dt = 1, T = 0.5, otherwise valid.
InstabilityScenario == dt = Int2Rat(1) /\ T = Rat(1, 2) /\ Pos(total_time)

C9_InstabilityWarning ==
    (ValidConfig /\ RLe(T, dt) /\ pc = "returned") => diagnostics # {}

\* C10: for a valid configuration index 0 of output, control and error is 0
\* throughout the run, whatever the setpoint and parameters.
C10_ZeroInitial ==
    (ValidConfig /\ Running /\ n_steps >= 1) =>
        y[0] = Zero /\ u[0] = Zero /\ error[0] = Zero

\* A returned run with a nonzero setpoint whose index 1 is nonzero in all
\* three arrays.
C10_Witness ==
    /\ ValidConfig /\ pc = "returned" /\ n_steps >= 2
    /\ sp # Zero
    /\ y[1] # Zero /\ u[1] # Zero /\ error[1] # Zero

----------------------------------------------------------------------------
\* The control sample that reaches the plant at step k: control[k - d] when
\* k - d >= 0, and 0 before that.
DelayedControlAt(k) ==
    IF k - delay_steps >= 0 THEN u[k - delay_steps] ELSE Zero

\* C11: for a valid configuration every computed step k in 1..n-1 has
\* error[k] = sp - output[k-1] and
\* output[k] = (dt/T)*K*delayedControl + (1 - dt/T)*output[k-1], stated free
\* of division as T*output[k] = dt*K*delayedControl + (T - dt)*output[k-1],
\* where delayedControl is control[k - delaySteps] or 0 before the delay has
\* elapsed; control[k] is already that step's own sample, so with L = 0 the
\* plant is driven by control[k] itself.
C11_StepEquations ==
    (ValidConfig /\ Running) =>
        \A k \in 1..(i - 1) :
            /\ error[k] = RSub(sp, y[k - 1])
            /\ RMul(T, y[k]) =
                   RAdd(RMul(RMul(dt, K), DelayedControlAt(k)),
                        RMul(RSub(T, dt), y[k - 1]))
            /\ L = Zero =>
                   RMul(T, y[k]) =
                       RAdd(RMul(RMul(dt, K), u[k]),
                            RMul(RSub(T, dt), y[k - 1]))

\* A returned run behind a delay of at least two steps: step 1 is fed 0, a
\* later step is fed a nonzero earlier control sample, and the output has
\* moved.
C11_Witness ==
    /\ ValidConfig /\ pc = "returned"
    /\ delay_steps >= 2 /\ n_steps >= delay_steps + 3
    /\ u[1] # Zero /\ y[delay_steps] = Zero
    /\ y[delay_steps + 1] # Zero
    /\ y[delay_steps + 2] # y[delay_steps + 1]
    /\ error[delay_steps + 2] # sp

====
